---- MODULE Spec2Model ----
(***************************************************************************)
(* The audio mixer of esscbee/hifi: the ring buffer and the interframe gap *)
(* history of AudioRingBuffer.cpp (src/unnamed/part_000) and the mixer     *)
(* loop of audio-mixer/src/main.cpp.                                       *)
(*                                                                         *)
(* Pointers into the sample store are modelled as offsets from _buffer;    *)
(* NULL is the offset -1.  Frame and ring sizes are scaled down.           *)
(***************************************************************************)
EXTENDS Integers, Sequences, FiniteSets, TLC

VARIABLES
    sat,        \* plateauAdditionOfSamples: the sample being mixed and what was added
    ring,       \* one AudioRingBuffer driven through its own operations
    ringOut,    \* what the last ring operation was, what it returned, the state before it
    ringLog,    \* running totals of the samples written and read on `ring`
    gapHist,    \* InterframeTimeGapHistory: the object, the clock, the gaps fed so far
    agents,     \* the mixer's agent list, each agent with its linked ring buffer
    pc,         \* the mixer loop's position
    frame,      \* the mixer's frame-local state: scratch, listener cursor, frame counter
    mixLog,     \* per-agent record of what the gate and the mix did
    shift,      \* shiftedPositionAccomodatingWrap: a position, two shifts, the results
    clock,      \* the loop's timing: start time, current time, nextFrame, last sleep
    geo         \* the geometry of a listener and another agent, and what the mix makes of it

vars == <<sat, ring, ringOut, ringLog, gapHist, agents, pc, frame, mixLog, shift, clock, geo>>

satVars == <<sat>>

ringVars == <<ring, ringOut, ringLog>>

gapVars == <<gapHist>>

mixerVars == <<agents, pc, frame, mixLog>>

shiftVars == <<shift>>

clockVars == <<clock>>
geoVars == <<geo>>

\* ------------------------------------------------------------------ sizes

\* BUFFER_LENGTH_SAMPLES_PER_CHANNEL, the frame size F (256 in the source).
BUFFER_LENGTH_SAMPLES_PER_CHANNEL == 2

\* RING_BUFFER_FRAMES / RING_BUFFER_LENGTH_FRAMES (10 in the source).
RING_BUFFER_FRAMES == 3

\* JITTER_BUFFER_SAMPLES, the start-up cushion J (264 in the source).
JITTER_BUFFER_SAMPLES == 1

RING_BUFFER_SAMPLES == RING_BUFFER_FRAMES * BUFFER_LENGTH_SAMPLES_PER_CHANNEL

MAX_SAMPLE_VALUE == 32767

MIN_SAMPLE_VALUE == -32768

NULL == -1

\* An element of the sample store that was never assigned (new int16_t[n]).
UNINIT == -99

Min(a, b) == IF a < b THEN a ELSE b

Max(a, b) == IF a > b THEN a ELSE b

\* ------------------------------------------------------- saturating addition

\* The conversion of a long to int16_t on assignment: the value modulo 2^16.
ToInt16(v) == ((v + 32768) % 65536) - 32768

\* main.cpp:65-72.  The second assignment clamps sumSample again, not the
\* result of the first, so only the lower bound is applied.
plateauAdditionOfSamples(mixSample, sampleToAdd) ==
    LET sumSample == sampleToAdd + mixSample
        normalizedFirst == Min(MAX_SAMPLE_VALUE, sumSample)
        normalizedSample == Max(MIN_SAMPLE_VALUE, sumSample)
    IN  ToInt16(normalizedSample)

\* How many additions into one scratch sample the saturation runs follow.
MaxAdds == 3

SatSamples ==
    {MIN_SAMPLE_VALUE, MIN_SAMPLE_VALUE + 1, -20000, -1, 0, 1, 20000,
     MAX_SAMPLE_VALUE - 1, MAX_SAMPLE_VALUE}

\* main.cpp:140: the scratch sample starts at zero.
SatInit == sat = [mixSample |-> 0, prevMix |-> 0, sampleToAdd |-> 0, adds |-> 0]

\* One call plateauAdditionOfSamples(mixSample, sampleToAdd), main.cpp:242-250.
SatAdd ==
    /\ sat.adds < MaxAdds
    /\ \E s \in SatSamples :
           sat' = [mixSample |-> plateauAdditionOfSamples(sat.mixSample, s),
                   prevMix |-> sat.mixSample,
                   sampleToAdd |-> s,
                   adds |-> sat.adds + 1]
    /\ UNCHANGED <<shiftVars, geoVars, clockVars, ringVars, gapVars, mixerVars>>

\* ---------------------------------------------------------- AudioRingBuffer

\* shiftedPositionAccomodatingWrap as it would be if a shift backwards past
\* the origin did not wrap.
shiftedPositionAccomodatingWrap_ForwardOnly(cap, position, numSamplesShift) ==
    IF numSamplesShift > 0 /\ position + numSamplesShift >= cap
    THEN position + numSamplesShift - cap
    ELSE position + numSamplesShift

\* part_000:263-274.
shiftedPositionAccomodatingWrap(cap, position, numSamplesShift) ==
    IF numSamplesShift > 0 /\ position + numSamplesShift >= cap
    THEN position + numSamplesShift - cap
    ELSE IF numSamplesShift < 0 /\ position + numSamplesShift < 0
         THEN position + numSamplesShift + cap
         ELSE position + numSamplesShift

\* part_000:226-238.
samplesAvailable(rb) ==
    IF rb.endOfLastWrite = NULL
    THEN 0
    ELSE LET sampleDifference == rb.endOfLastWrite - rb.nextOutput
         IN  IF sampleDifference < 0
             THEN sampleDifference + rb.sampleCapacity
             ELSE sampleDifference

\* memcpy(_buffer + pos, data, Len(data) samples).
memcpyTo(buffer, pos, data) ==
    [i \in DOMAIN buffer |->
        IF pos <= i /\ i < pos + Len(data) THEN data[i - pos + 1] ELSE buffer[i]]

\* memcpy(dst, _buffer + pos, n samples).
memcpyFrom(buffer, pos, n) == [k \in 1..n |-> buffer[pos + k - 1]]

\* memset(_buffer + pos, 0, n samples).
memsetZero(buffer, pos, n) ==
    [i \in DOMAIN buffer |-> IF pos <= i /\ i < pos + n THEN 0 ELSE buffer[i]]

\* part_000:85-105, numFrameSamples > 0.
AudioRingBuffer(numFrameSamples, randomAccessMode) ==
    [sampleCapacity |-> numFrameSamples * RING_BUFFER_FRAMES,
     numFrameSamples |-> numFrameSamples,
     isStarved |-> TRUE,
     hasStarted |-> FALSE,
     randomAccessMode |-> randomAccessMode,
     buffer |-> [i \in 0..(numFrameSamples * RING_BUFFER_FRAMES - 1) |->
                    IF randomAccessMode THEN 0 ELSE UNINIT],
     nextOutput |-> 0,
     endOfLastWrite |-> 0]

\* part_000:111-115.
reset(rb) == [rb EXCEPT !.endOfLastWrite = 0, !.nextOutput = 0, !.isStarved = TRUE]

\* part_000:191-193, the condition under which writeData resets the buffer.
writeCrossesNextOutput(rb, samplesToCopy) ==
    /\ rb.hasStarted
    /\ rb.endOfLastWrite < rb.nextOutput
    /\ rb.nextOutput <=
           shiftedPositionAccomodatingWrap(rb.sampleCapacity, rb.endOfLastWrite, samplesToCopy)

\* writeData as it would be if a write that finds the crossing returned after
\* the reset, copying nothing.
writeData_ResetOnly(rb, data, maxSize) ==
    LET cap == rb.sampleCapacity
        samplesToCopy == Min(maxSize \div 2, cap)
        overflow == writeCrossesNextOutput(rb, samplesToCopy)
        w == rb.endOfLastWrite
        copied == SubSeq(data, 1, samplesToCopy)
        buf == IF w + samplesToCopy <= cap
               THEN memcpyTo(rb.buffer, w, copied)
               ELSE LET numSamplesToEnd == cap - w
                    IN  memcpyTo(memcpyTo(rb.buffer, w, SubSeq(copied, 1, numSamplesToEnd)),
                                 0, SubSeq(copied, numSamplesToEnd + 1, samplesToCopy))
    IN  IF overflow
        THEN [rb |-> reset(rb), ret |-> samplesToCopy * 2, n |-> samplesToCopy,
              data |-> copied, overflow |-> TRUE]
        ELSE [rb |-> [rb EXCEPT !.buffer = buf,
                                !.endOfLastWrite =
                                    shiftedPositionAccomodatingWrap(cap, w, samplesToCopy)],
              ret |-> samplesToCopy * 2,
              n |-> samplesToCopy,
              data |-> copied,
              overflow |-> FALSE]

\* part_000:182-212.  data holds the payload's samples, maxSize its bytes.
writeData(rb, data, maxSize) ==
    LET cap == rb.sampleCapacity
        samplesToCopy == Min(maxSize \div 2, cap)
        overflow == writeCrossesNextOutput(rb, samplesToCopy)
        rb1 == IF overflow THEN reset(rb) ELSE rb
        w == rb1.endOfLastWrite
        copied == SubSeq(data, 1, samplesToCopy)
        buf == IF w + samplesToCopy <= cap
               THEN memcpyTo(rb1.buffer, w, copied)
               ELSE LET numSamplesToEnd == cap - w
                    IN  memcpyTo(memcpyTo(rb1.buffer, w, SubSeq(copied, 1, numSamplesToEnd)),
                                 0, SubSeq(copied, numSamplesToEnd + 1, samplesToCopy))
    IN  [rb |-> [rb1 EXCEPT !.buffer = buf,
                            !.endOfLastWrite =
                                shiftedPositionAccomodatingWrap(cap, w, samplesToCopy)],
         ret |-> samplesToCopy * 2,
         n |-> samplesToCopy,
         data |-> copied,
         overflow |-> overflow]

\* readData as it would be if a read in random-access mode did not clear
\* what it read.
readData_NoClear(rb, maxSize) ==
    LET cap == rb.sampleCapacity
        r == rb.nextOutput
        numReadSamples ==
            IF rb.randomAccessMode
            THEN (IF rb.endOfLastWrite # NULL THEN maxSize \div 2 ELSE 0)
            ELSE Min(maxSize \div 2, samplesAvailable(rb))
        wraps == r + numReadSamples > cap
        numSamplesToEnd == cap - r
        data == IF wraps
                THEN memcpyFrom(rb.buffer, r, numSamplesToEnd)
                         \o memcpyFrom(rb.buffer, 0, numReadSamples - numSamplesToEnd)
                ELSE memcpyFrom(rb.buffer, r, numReadSamples)
        buf == rb.buffer
    IN  [rb |-> [rb EXCEPT !.buffer = buf,
                           !.nextOutput =
                               shiftedPositionAccomodatingWrap(cap, r, numReadSamples)],
         ret |-> numReadSamples * 2,
         n |-> numReadSamples,
         data |-> data,
         overflow |-> FALSE]

\* readData as it would be if every read took as many samples as asked
\* for, as the reads in random-access mode do.
readData_NotLimited(rb, maxSize) ==
    LET cap == rb.sampleCapacity
        r == rb.nextOutput
        numReadSamples ==
            IF rb.endOfLastWrite # NULL THEN maxSize \div 2 ELSE 0
        wraps == r + numReadSamples > cap
        numSamplesToEnd == cap - r
        data == IF wraps
                THEN memcpyFrom(rb.buffer, r, numSamplesToEnd)
                         \o memcpyFrom(rb.buffer, 0, numReadSamples - numSamplesToEnd)
                ELSE memcpyFrom(rb.buffer, r, numReadSamples)
        buf == IF ~rb.randomAccessMode
               THEN rb.buffer
               ELSE IF wraps
                    THEN memsetZero(memsetZero(rb.buffer, r, numSamplesToEnd),
                                    0, numReadSamples - numSamplesToEnd)
                    ELSE memsetZero(rb.buffer, r, numReadSamples)
    IN  [rb |-> [rb EXCEPT !.buffer = buf,
                           !.nextOutput =
                               shiftedPositionAccomodatingWrap(cap, r, numReadSamples)],
         ret |-> numReadSamples * 2,
         n |-> numReadSamples,
         data |-> data,
         overflow |-> FALSE]

\* part_000:137-176.  maxSize is the destination's size in bytes.
readData(rb, maxSize) ==
    LET cap == rb.sampleCapacity
        r == rb.nextOutput
        numReadSamples ==
            IF rb.randomAccessMode
            THEN (IF rb.endOfLastWrite # NULL THEN maxSize \div 2 ELSE 0)
            ELSE Min(maxSize \div 2, samplesAvailable(rb))
        wraps == r + numReadSamples > cap
        numSamplesToEnd == cap - r
        data == IF wraps
                THEN memcpyFrom(rb.buffer, r, numSamplesToEnd)
                         \o memcpyFrom(rb.buffer, 0, numReadSamples - numSamplesToEnd)
                ELSE memcpyFrom(rb.buffer, r, numReadSamples)
        buf == IF ~rb.randomAccessMode
               THEN rb.buffer
               ELSE IF wraps
                    THEN memsetZero(memsetZero(rb.buffer, r, numSamplesToEnd),
                                    0, numReadSamples - numSamplesToEnd)
                    ELSE memsetZero(rb.buffer, r, numReadSamples)
    IN  [rb |-> [rb EXCEPT !.buffer = buf,
                           !.nextOutput =
                               shiftedPositionAccomodatingWrap(cap, r, numReadSamples)],
         ret |-> numReadSamples * 2,
         n |-> numReadSamples,
         data |-> data,
         overflow |-> FALSE]

\* part_000:222-224.
shiftReadPosition(rb, numSamples) ==
    [rb EXCEPT !.nextOutput =
        shiftedPositionAccomodatingWrap(rb.sampleCapacity, rb.nextOutput, numSamples)]

\* part_000:240-253.
addSilentFrame(rb, numSilentSamples) ==
    LET cap == rb.sampleCapacity
        w == rb.endOfLastWrite
    IN  IF w + numSilentSamples <= cap
        THEN [rb EXCEPT !.buffer = memsetZero(rb.buffer, w, numSilentSamples),
                        !.endOfLastWrite = w + numSilentSamples]
        ELSE LET numSamplesToEnd == cap - w
             IN  [rb EXCEPT !.buffer = memsetZero(memsetZero(rb.buffer, w, numSamplesToEnd),
                                                  0, numSilentSamples - numSamplesToEnd),
                            !.endOfLastWrite = numSilentSamples - numSamplesToEnd]

\* main.cpp:121,125: the mixer's gate sets and clears the started flag.
setStarted(rb, started) == [rb EXCEPT !.hasStarted = started]

\* ------------------------------------------- the ring buffer, driven directly

\* numFrameSamples of the ring buffer that is driven directly: its capacity
\* is RingFrameSamples * RING_BUFFER_FRAMES samples.
RingFrameSamples == 1

RingCapacity == RingFrameSamples * RING_BUFFER_FRAMES

\* The most samples the writes of one run offer in total.
MaxOffered == 7

\* The largest payload of one write, in bytes: one sample more than the
\* capacity, and a trailing odd byte.
MaxWriteBytes == 2 * (RingCapacity + 1) + 1

\* The payload of a write: consecutive sample values, so that every sample
\* ever offered is told apart from every other.
Payload(first, n) == [k \in 1..n |-> first + k - 1]

\* The last call: its argument, what it returned, whether it found the
\* overflow, and the samples a read copied out.
NoRingOp ==
    [op |-> "none", arg |-> 0, ret |-> 0, overflow |-> FALSE, data |-> <<>>]

\* The totals are kept while the run consists of writes and reads alone.
LogVoid(log) == [log EXCEPT !.onlyWritesAndReads = FALSE, !.sumWritten = 0, !.sumRead = 0]

RingInit ==
    /\ \E randomAccessMode \in BOOLEAN :
           ring = AudioRingBuffer(RingFrameSamples, randomAccessMode)
    /\ ringOut = NoRingOp
    /\ ringLog = [nextTag |-> 1, onlyWritesAndReads |-> TRUE, resets |-> FALSE,
                  sumWritten |-> 0, sumRead |-> 0, written |-> FALSE]

RingWrite ==
    /\ \E maxSize \in 0..MaxWriteBytes :
           LET offered == maxSize \div 2
               res == writeData(ring, Payload(ringLog.nextTag, offered), maxSize)
           IN  /\ ringLog.nextTag + offered - 1 <= MaxOffered
               /\ ring' = res.rb
               /\ ringOut' = [op |-> "write", arg |-> maxSize, ret |-> res.ret,
                              overflow |-> res.overflow, data |-> <<>>]
               /\ ringLog' = [ringLog EXCEPT
                                 !.nextTag = @ + offered,
                                 !.written = TRUE,
                                 !.resets = @ \/ res.overflow,
                                 !.sumWritten = IF ringLog.onlyWritesAndReads
                                                THEN @ + res.n ELSE 0]
    /\ UNCHANGED <<shiftVars, geoVars, clockVars, satVars, gapVars, mixerVars>>

RingRead ==
    /\ \E maxSamples \in 0..RingCapacity :
           LET res == readData(ring, maxSamples * 2)
           IN  /\ ring' = res.rb
               /\ ringOut' = [op |-> "read", arg |-> maxSamples * 2, ret |-> res.ret,
                              overflow |-> FALSE, data |-> res.data]
               /\ ringLog' = IF ringLog.onlyWritesAndReads /\ ~ring.randomAccessMode
                             THEN [ringLog EXCEPT !.sumRead = @ + res.n]
                             ELSE LogVoid(ringLog)
    /\ UNCHANGED <<shiftVars, geoVars, clockVars, satVars, gapVars, mixerVars>>

RingAddSilent ==
    /\ \E numSilentSamples \in 0..RingCapacity :
           /\ ring' = addSilentFrame(ring, numSilentSamples)
           /\ ringOut' = [NoRingOp EXCEPT !.op = "addSilent", !.arg = numSilentSamples]
           /\ ringLog' = LogVoid(ringLog)
    /\ UNCHANGED <<shiftVars, geoVars, clockVars, satVars, gapVars, mixerVars>>

RingShiftRead ==
    /\ \E numSamples \in 0..RingCapacity :
           /\ ring' = shiftReadPosition(ring, numSamples)
           /\ ringOut' = [NoRingOp EXCEPT !.op = "shiftRead", !.arg = numSamples]
           /\ ringLog' = LogVoid(ringLog)
    /\ UNCHANGED <<shiftVars, geoVars, clockVars, satVars, gapVars, mixerVars>>

RingReset ==
    /\ ring' = reset(ring)
    /\ ringOut' = [NoRingOp EXCEPT !.op = "reset"]
    /\ ringLog' = LogVoid(ringLog)
    /\ UNCHANGED <<shiftVars, geoVars, clockVars, satVars, gapVars, mixerVars>>

RingSetStarted ==
    /\ \E started \in BOOLEAN :
           /\ ring' = setStarted(ring, started)
           /\ ringOut' = [NoRingOp EXCEPT !.op = "setStarted"]
           /\ ringLog' = ringLog
    /\ UNCHANGED <<shiftVars, geoVars, clockVars, satVars, gapVars, mixerVars>>

RingNext ==
    \/ RingWrite
    \/ RingRead
    \/ RingAddSilent
    \/ RingShiftRead
    \/ RingReset
    \/ RingSetStarted

\* ------------------------------------ shiftedPositionAccomodatingWrap alone

\* No position has been shifted.
ShiftIdle ==
    shift = [position |-> 0, n1 |-> 0, n2 |-> 0, applied |-> FALSE,
             composed |-> 0, stepwise |-> 0]

\* A position of a buffer of RingCapacity samples and two shifts of at most
\* the capacity, forwards or backwards.
ShiftInit ==
    \E position \in 0..(RingCapacity - 1), n1, n2 \in (-RingCapacity)..RingCapacity :
        shift = [position |-> position, n1 |-> n1, n2 |-> n2, applied |-> FALSE,
                 composed |-> 0, stepwise |-> 0]

\* The position is shifted by n1 + n2 at once, and by n1 and then by n2.
ShiftApply ==
    /\ ~shift.applied
    /\ shift' = [shift EXCEPT
                    !.applied = TRUE,
                    !.composed =
                        shiftedPositionAccomodatingWrap(RingCapacity, shift.position,
                                                        shift.n1 + shift.n2),
                    !.stepwise =
                        shiftedPositionAccomodatingWrap(
                            RingCapacity,
                            shiftedPositionAccomodatingWrap(RingCapacity, shift.position,
                                                            shift.n1),
                            shift.n2)]
    /\ UNCHANGED <<geoVars, clockVars, satVars, ringVars, gapVars, mixerVars>>

\* ------------------------------------------------- InterframeTimeGapHistory

\* TIME_GAP_NUM_SAMPLES_IN_INTERVAL, the gaps per interval S.
TIME_GAP_NUM_SAMPLES_IN_INTERVAL == 2

\* TIME_GAP_NUM_INTERVALS_IN_WINDOW, the intervals per window W.
TIME_GAP_NUM_INTERVALS_IN_WINDOW == 3

\* The largest time between two calls of frameReceived, and the most calls.
MaxGap == 1

MaxCalls == 10

\* part_000:23-32.
InterframeTimeGapHistory ==
    [lastFrameReceivedTime |-> 0,
     numSamplesInCurrentInterval |-> 0,
     currentIntervalMaxGap |-> 0,
     newestIntervalMaxGapAt |-> 0,
     windowMaxGap |-> 0,
     newWindowMaxGapAvailable |-> FALSE,
     intervalMaxGaps |-> [i \in 0..(TIME_GAP_NUM_INTERVALS_IN_WINDOW - 1) |-> 0]]

\* part_000:60-66: the largest of the stored interval maxima, from zero.
maxOfIntervalMaxGaps(intervalMaxGaps, start) ==
    LET RECURSIVE scan(_, _)
        scan(i, windowMaxGap) ==
            IF i = TIME_GAP_NUM_INTERVALS_IN_WINDOW
            THEN windowMaxGap
            ELSE scan(i + 1, IF intervalMaxGaps[i] > windowMaxGap
                             THEN intervalMaxGaps[i] ELSE windowMaxGap)
    IN  scan(0, start)

frameReceived_KeepsOldWindowMax(h, now) ==
    IF h.lastFrameReceivedTime = 0
    THEN [h EXCEPT !.lastFrameReceivedTime = now]
    ELSE LET gap == now - h.lastFrameReceivedTime
             currentMax == IF gap > h.currentIntervalMaxGap
                           THEN gap ELSE h.currentIntervalMaxGap
             count == h.numSamplesInCurrentInterval + 1
         IN  IF count = TIME_GAP_NUM_SAMPLES_IN_INTERVAL
             THEN LET newest ==
                          IF h.newestIntervalMaxGapAt = TIME_GAP_NUM_INTERVALS_IN_WINDOW - 1
                          THEN 0 ELSE h.newestIntervalMaxGapAt + 1
                      maxes == [h.intervalMaxGaps EXCEPT ![newest] = currentMax]
                  IN  [h EXCEPT !.newestIntervalMaxGapAt = newest,
                                !.intervalMaxGaps = maxes,
                                !.windowMaxGap = maxOfIntervalMaxGaps(maxes, h.windowMaxGap),
                                !.newWindowMaxGapAvailable = TRUE,
                                !.numSamplesInCurrentInterval = 0,
                                !.currentIntervalMaxGap = 0,
                                !.lastFrameReceivedTime = now]
             ELSE [h EXCEPT !.currentIntervalMaxGap = currentMax,
                            !.numSamplesInCurrentInterval = count,
                            !.lastFrameReceivedTime = now]

\* frameReceived as it would be if an interval kept its first gap instead of
\* its largest.
frameReceived_KeepsFirstGap(h, now) ==
    IF h.lastFrameReceivedTime = 0
    THEN [h EXCEPT !.lastFrameReceivedTime = now]
    ELSE LET gap == now - h.lastFrameReceivedTime
             currentMax == IF h.numSamplesInCurrentInterval = 0
                           THEN gap ELSE h.currentIntervalMaxGap
             count == h.numSamplesInCurrentInterval + 1
         IN  IF count = TIME_GAP_NUM_SAMPLES_IN_INTERVAL
             THEN LET newest ==
                          IF h.newestIntervalMaxGapAt = TIME_GAP_NUM_INTERVALS_IN_WINDOW - 1
                          THEN 0 ELSE h.newestIntervalMaxGapAt + 1
                      maxes == [h.intervalMaxGaps EXCEPT ![newest] = currentMax]
                  IN  [h EXCEPT !.newestIntervalMaxGapAt = newest,
                                !.intervalMaxGaps = maxes,
                                !.windowMaxGap = maxOfIntervalMaxGaps(maxes, 0),
                                !.newWindowMaxGapAvailable = TRUE,
                                !.numSamplesInCurrentInterval = 0,
                                !.currentIntervalMaxGap = 0,
                                !.lastFrameReceivedTime = now]
             ELSE [h EXCEPT !.currentIntervalMaxGap = currentMax,
                            !.numSamplesInCurrentInterval = count,
                            !.lastFrameReceivedTime = now]

\* part_000:34-77.  now is usecTimestampNow(); the clock of the model never
\* goes back, so the quint64 difference does not wrap.
frameReceived(h, now) ==
    IF h.lastFrameReceivedTime = 0
    THEN [h EXCEPT !.lastFrameReceivedTime = now]
    ELSE LET gap == now - h.lastFrameReceivedTime
             currentMax == IF gap > h.currentIntervalMaxGap
                           THEN gap ELSE h.currentIntervalMaxGap
             count == h.numSamplesInCurrentInterval + 1
         IN  IF count = TIME_GAP_NUM_SAMPLES_IN_INTERVAL
             THEN LET newest ==
                          IF h.newestIntervalMaxGapAt = TIME_GAP_NUM_INTERVALS_IN_WINDOW - 1
                          THEN 0 ELSE h.newestIntervalMaxGapAt + 1
                      maxes == [h.intervalMaxGaps EXCEPT ![newest] = currentMax]
                  IN  [h EXCEPT !.newestIntervalMaxGapAt = newest,
                                !.intervalMaxGaps = maxes,
                                !.windowMaxGap = maxOfIntervalMaxGaps(maxes, 0),
                                !.newWindowMaxGapAvailable = TRUE,
                                !.numSamplesInCurrentInterval = 0,
                                !.currentIntervalMaxGap = 0,
                                !.lastFrameReceivedTime = now]
             ELSE [h EXCEPT !.currentIntervalMaxGap = currentMax,
                            !.numSamplesInCurrentInterval = count,
                            !.lastFrameReceivedTime = now]

\* part_000:79-82.
\* getPastWindowMaxGap as it would be if it left the flag set.
getPastWindowMaxGap_KeepsFlag(h) ==
    [h |-> h, ret |-> h.windowMaxGap]

getPastWindowMaxGap(h) ==
    [h |-> [h EXCEPT !.newWindowMaxGapAvailable = FALSE], ret |-> h.windowMaxGap]

\* The clock starts after the epoch; no call has been made.
GapInit ==
    gapHist = [h |-> InterframeTimeGapHistory, now |-> 1, calls |-> 0, gaps |-> <<>>,
               drained |-> 0, completedSinceDrain |-> FALSE]

\* Time passes and a frame arrives.  gaps lists the time between each call
\* and the call before it.
GapFrameReceived ==
    /\ gapHist.calls < MaxCalls
    /\ \E d \in 0..MaxGap :
           gapHist' = [gapHist EXCEPT
                          !.now = @ + d,
                          !.h = frameReceived(@, gapHist.now + d),
                          !.calls = @ + 1,
                          !.gaps = IF gapHist.calls = 0 THEN @ ELSE Append(@, d),
                          !.completedSinceDrain =
                              @ \/ (/\ gapHist.calls > 0
                                    /\ (Len(gapHist.gaps) + 1)
                                           % TIME_GAP_NUM_SAMPLES_IN_INTERVAL = 0)]
    /\ UNCHANGED <<shiftVars, geoVars, clockVars, satVars, ringVars, mixerVars>>

GapDrain ==
    /\ LET res == getPastWindowMaxGap(gapHist.h)
       IN  gapHist' = [gapHist EXCEPT !.h = res.h, !.drained = res.ret,
                                      !.completedSinceDrain = FALSE]
    /\ UNCHANGED <<shiftVars, geoVars, clockVars, satVars, ringVars, mixerVars>>

GapNext ==
    \/ GapFrameReceived
    \/ GapDrain

\* A frame arrives after a gap that is the next of 100, 200, 300, ... or 100:
\* the calls of one window after the first call.
GapFrameReceivedScenario ==
    /\ gapHist.calls <= TIME_GAP_NUM_SAMPLES_IN_INTERVAL * TIME_GAP_NUM_INTERVALS_IN_WINDOW
    /\ \E d \in {100, 100 * Max(1, gapHist.calls)} :
           gapHist' = [gapHist EXCEPT
                          !.now = @ + d,
                          !.h = frameReceived(@, gapHist.now + d),
                          !.calls = @ + 1,
                          !.gaps = IF gapHist.calls = 0 THEN @ ELSE Append(@, d),
                          !.completedSinceDrain =
                              @ \/ (/\ gapHist.calls > 0
                                    /\ (Len(gapHist.gaps) + 1)
                                           % TIME_GAP_NUM_SAMPLES_IN_INTERVAL = 0)]
    /\ UNCHANGED <<shiftVars, geoVars, clockVars, satVars, ringVars, mixerVars>>

GapScenarioNext ==
    \/ GapFrameReceivedScenario
    \/ GapDrain

\* ------------------------------------------------------------ the mixer loop

\* PHASE_DELAY_AT_90, the inter-aural delay in samples at 90 degrees (20 in
\* the source, less than a frame).
PHASE_DELAY_AT_90 == 1

\* The addresses of the avatars that send microphone packets, and the
\* identifiers of the injected streams.
Avatars == {1, 2}

Streams == {3}

\* The most packets one run receives.
MaxPackets == 5

\* The payload sizes of a packet, in samples.
PacketSamples == {1, BUFFER_LENGTH_SAMPLES_PER_CHANNEL}

\* What a read of a sample that was never assigned may yield.
UninitValues == {0, 3}

\* The k-th sample an identity sends.
TagOf(identity, k) == identity * 100 + k

PacketPayload(identity, sent, n) == [k \in 1..n |-> TagOf(identity, sent + k)]

\* attachNewBufferToAgent as it would be without the test for a buffer the
\* agent already has.
attachNewBufferToAgent_Always(agent) ==
    [agent EXCEPT !.hasLinkedData = TRUE,
                  !.rb = AudioRingBuffer(BUFFER_LENGTH_SAMPLES_PER_CHANNEL, FALSE)]

\* main.cpp:74-78.  The buffer holds RING_BUFFER_SAMPLES samples.
attachNewBufferToAgent(agent) ==
    IF agent.hasLinkedData
    THEN agent
    ELSE [agent EXCEPT !.hasLinkedData = TRUE,
                       !.rb = AudioRingBuffer(BUFFER_LENGTH_SAMPLES_PER_CHANNEL, FALSE)]

\* part_000:128-131.
parseData(rb, data, maxSize) == writeData(rb, data, maxSize).rb

\* An agent as AgentList::addOrUpdateAgent creates it: no linked data yet.
NewAgent(type, address, streamId, loopback) ==
    [type |-> type,
     address |-> address,
     streamId |-> streamId,
     loopback |-> loopback,
     shouldBeAddedToMix |-> FALSE,
     hasLinkedData |-> FALSE,
     rb |-> AudioRingBuffer(BUFFER_LENGTH_SAMPLES_PER_CHANNEL, FALSE)]

\* The index of the agent with this type and address (stream), or 0.
FindAgent(list, type, address, streamId) ==
    LET hits == {i \in 1..Len(list) :
                    /\ list[i].type = type
                    /\ list[i].address = address
                    /\ list[i].streamId = streamId}
    IN  IF hits = {} THEN 0 ELSE CHOOSE i \in hits : \A j \in hits : i <= j

\* AgentList::updateAgentWithData: the linked data is created on the first
\* packet (linkedDataCreateCallback), then the packet is parsed into it.
updateAgentWithData(agent, data, maxSize) ==
    LET linked == attachNewBufferToAgent(agent)
    IN  [linked EXCEPT !.rb = parseData(linked.rb, data, maxSize)]

\* The gate as it would be if a starved buffer stayed started.
EligibilityOf_StarvedStaysStarted(agent) ==
    LET rb == agent.rb
        diffLastWriteNextOutput == samplesAvailable(rb)
    IN  IF rb.endOfLastWrite = NULL
        THEN agent
        ELSE IF ~rb.hasStarted
                /\ diffLastWriteNextOutput <=
                       BUFFER_LENGTH_SAMPLES_PER_CHANNEL + JITTER_BUFFER_SAMPLES
             THEN [agent EXCEPT !.shouldBeAddedToMix = FALSE]
             ELSE IF diffLastWriteNextOutput < BUFFER_LENGTH_SAMPLES_PER_CHANNEL
                  THEN [agent EXCEPT !.shouldBeAddedToMix = FALSE]
                  ELSE [agent EXCEPT !.rb = setStarted(rb, TRUE),
                                     !.shouldBeAddedToMix = TRUE]

\* The gate as it would be without the cushion: a buffer that is not started
\* is held back only below one frame.
EligibilityOf_NoCushion(agent) ==
    LET rb == agent.rb
        diffLastWriteNextOutput == samplesAvailable(rb)
    IN  IF rb.endOfLastWrite = NULL
        THEN agent
        ELSE IF ~rb.hasStarted
                /\ diffLastWriteNextOutput < BUFFER_LENGTH_SAMPLES_PER_CHANNEL
             THEN [agent EXCEPT !.shouldBeAddedToMix = FALSE]
             ELSE IF diffLastWriteNextOutput < BUFFER_LENGTH_SAMPLES_PER_CHANNEL
                  THEN [agent EXCEPT !.rb = setStarted(rb, FALSE),
                                     !.shouldBeAddedToMix = FALSE]
                  ELSE [agent EXCEPT !.rb = setStarted(rb, TRUE),
                                     !.shouldBeAddedToMix = TRUE]

\* The gate as it would be if a started buffer holding exactly one frame
\* counted as starved.
EligibilityOf_StarvedAtOneFrame(agent) ==
    LET rb == agent.rb
        diffLastWriteNextOutput == samplesAvailable(rb)
    IN  IF rb.endOfLastWrite = NULL
        THEN agent
        ELSE IF ~rb.hasStarted
                /\ diffLastWriteNextOutput <=
                       BUFFER_LENGTH_SAMPLES_PER_CHANNEL + JITTER_BUFFER_SAMPLES
             THEN [agent EXCEPT !.shouldBeAddedToMix = FALSE]
             ELSE IF diffLastWriteNextOutput <= BUFFER_LENGTH_SAMPLES_PER_CHANNEL
                  THEN [agent EXCEPT !.rb = setStarted(rb, FALSE),
                                     !.shouldBeAddedToMix = FALSE]
                  ELSE [agent EXCEPT !.rb = setStarted(rb, TRUE),
                                     !.shouldBeAddedToMix = TRUE]

\* main.cpp:114-127, the gate of one agent's buffer.
EligibilityOf(agent) ==
    LET rb == agent.rb
        diffLastWriteNextOutput == samplesAvailable(rb)
    IN  IF rb.endOfLastWrite = NULL
        THEN agent
        ELSE IF ~rb.hasStarted
                /\ diffLastWriteNextOutput <=
                       BUFFER_LENGTH_SAMPLES_PER_CHANNEL + JITTER_BUFFER_SAMPLES
             THEN [agent EXCEPT !.shouldBeAddedToMix = FALSE]
             ELSE IF diffLastWriteNextOutput < BUFFER_LENGTH_SAMPLES_PER_CHANNEL
                  THEN [agent EXCEPT !.rb = setStarted(rb, FALSE),
                                     !.shouldBeAddedToMix = FALSE]
                  ELSE [agent EXCEPT !.rb = setStarted(rb, TRUE),
                                     !.shouldBeAddedToMix = TRUE]

\* What the gate did to an agent, read off the agent before and after.
GateOutcome(before, after) ==
    IF before.rb.endOfLastWrite = NULL THEN "skip"
    ELSE IF after.shouldBeAddedToMix THEN "eligible"
    ELSE IF before.rb.hasStarted THEN "starved"
    ELSE "heldBack"

\* The geometry of main.cpp:153-224 gives, for a listener and another agent,
\* an attenuation coefficient, the sine ratio of the relative bearing and the
\* side of the near ear.  Coefficients are counted in halves.  At sine
\* ratio 0 there is no delay and both channels get the same samples, so one
\* side stands for both.
AttHalves == {1, 2}

SpatialParams ==
    {p \in [att : AttHalves, sinRatio : {0, 1}, right : BOOLEAN] :
        p.sinRatio = 0 => ~p.right}

\* main.cpp:148-151, the values used when the listener mixes itself.
SelfParams == [att |-> 2, sinRatio |-> 0, right |-> FALSE]

\* A sample times a coefficient, converted back to an integer (towards zero).
Scale(sample, halves) ==
    IF sample >= 0 THEN (sample * halves) \div 2 ELSE -(((-sample) * halves) \div 2)

\* The sample at an offset of the store; one that was never assigned, or one
\* outside the store, is whatever the memory holds.
Peek(rb, pos, garbage) ==
    IF pos \notin DOMAIN rb.buffer THEN garbage
    ELSE IF rb.buffer[pos] = UNINIT THEN garbage
    ELSE rb.buffer[pos]

addToSample(clientSamples, at, sampleToAdd) ==
    [clientSamples EXCEPT ![at] = plateauAdditionOfSamples(@, sampleToAdd)]

\* main.cpp:226-252: one agent's frame mixed into the listener's scratch.
mixAgentInto(clientSamples, rb, params, garbage) ==
    LET F == BUFFER_LENGTH_SAMPLES_PER_CHANNEL
        numSamplesDelay == PHASE_DELAY_AT_90 * params.sinRatio
        weakHalves == 2 - params.sinRatio
        goodChannel == IF params.right THEN F ELSE 0
        delayedChannel == IF params.right THEN 0 ELSE F
        delaySamplePointer ==
            IF rb.nextOutput = 0
            THEN RING_BUFFER_SAMPLES - numSamplesDelay
            ELSE rb.nextOutput - numSamplesDelay
        RECURSIVE perSample(_, _)
        perSample(s, cs) ==
            IF s = F
            THEN cs
            ELSE LET earlierSample ==
                         Scale(Peek(rb, delaySamplePointer + s, garbage), params.att)
                     cs1 == IF s < numSamplesDelay
                            THEN addToSample(cs, delayedChannel + s,
                                             Scale(earlierSample, weakHalves))
                            ELSE cs
                     currentSample ==
                         ToInt16(Scale(Peek(rb, rb.nextOutput + s, garbage), params.att))
                     cs2 == addToSample(cs1, goodChannel + s, currentSample)
                     cs3 == IF s + numSamplesDelay < F
                            THEN addToSample(cs2, delayedChannel + s + numSamplesDelay,
                                             Scale(currentSample, weakHalves))
                            ELSE cs2
                 IN  perSample(s + 1, cs3)
    IN  perSample(0, clientSamples)

zeroKeepsScratch(clientSamples) == clientSamples

\* main.cpp:140: memset(clientSamples, 0, sizeof(clientSamples)).
zeroClientSamples(clientSamples) == [i \in DOMAIN clientSamples |-> 0]

\* main.cpp:142-146: whether the listener's mix takes this agent.
mixesAgent(list, listener, other) ==
    /\ other # listener \/ list[listener].loopback
    /\ list[other].shouldBeAddedToMix

\* main.cpp:139-255: the scratch of one avatar after all agents were mixed in.
\* params gives the geometry of each other agent that is mixed.
mixForListener(clientSamples, list, listener, params, garbage) ==
    LET RECURSIVE perAgent(_, _)
        perAgent(other, cs) ==
            IF other > Len(list)
            THEN cs
            ELSE perAgent(other + 1,
                          IF mixesAgent(list, listener, other)
                          THEN mixAgentInto(cs, list[other].rb,
                                            IF other = listener THEN SelfParams
                                            ELSE params[other],
                                            garbage)
                          ELSE cs)
    IN  perAgent(1, zeroClientSamples(clientSamples))

\* The advance as it would be if the read cursor wrapped only once it is
\* beyond the end of the buffer.
advanceNextOutput_WrapsLate(agent) ==
    IF agent.hasLinkedData /\ agent.shouldBeAddedToMix
    THEN LET next == agent.rb.nextOutput + BUFFER_LENGTH_SAMPLES_PER_CHANNEL
         IN  [agent EXCEPT !.rb.nextOutput = IF next > RING_BUFFER_SAMPLES THEN 0 ELSE next,
                           !.shouldBeAddedToMix = FALSE]
    ELSE agent

\* The advance as it would be if it left the agents it moved marked for the
\* mix.
advanceNextOutput_KeepsMark(agent) ==
    IF agent.hasLinkedData /\ agent.shouldBeAddedToMix
    THEN LET next == agent.rb.nextOutput + BUFFER_LENGTH_SAMPLES_PER_CHANNEL
         IN  [agent EXCEPT !.rb.nextOutput = IF next >= RING_BUFFER_SAMPLES THEN 0 ELSE next]
    ELSE agent

advanceNextOutput_NoWrap(agent) ==
    IF agent.hasLinkedData /\ agent.shouldBeAddedToMix
    THEN [agent EXCEPT !.rb.nextOutput = @ + BUFFER_LENGTH_SAMPLES_PER_CHANNEL,
                       !.shouldBeAddedToMix = FALSE]
    ELSE agent

\* main.cpp:264-273.
advanceNextOutput(agent) ==
    IF agent.hasLinkedData /\ agent.shouldBeAddedToMix
    THEN LET next == agent.rb.nextOutput + BUFFER_LENGTH_SAMPLES_PER_CHANNEL
         IN  [agent EXCEPT !.rb.nextOutput = IF next >= RING_BUFFER_SAMPLES THEN 0 ELSE next,
                           !.shouldBeAddedToMix = FALSE]
    ELSE agent

\* The mix loop as it would be if an avatar got a frame only when its own
\* buffer is marked for the mix.
getsFrame_OnlyIfMixed(agent) ==
    agent.type = "avatar" /\ agent.shouldBeAddedToMix

\* main.cpp:136: the agents the mix loop makes and sends a frame for.
getsFrame(agent) == agent.type = "avatar"

\* ---- the loop's state

NoMixLog ==
    [sent |-> 0, mixed |-> FALSE, everStarted |-> FALSE, firstWindow |-> <<>>,
     starved |-> FALSE, restarted |-> FALSE, frames |-> 0]

MixerInit ==
    /\ agents = <<>>
    /\ pc = "gate"
    /\ frame = [listener |-> 0,
                emittedTo |-> 0,
                clientSamples |-> [i \in 0..(2 * BUFFER_LENGTH_SAMPLES_PER_CHANNEL - 1) |-> 0],
                packets |-> 0,
                drained |-> FALSE,
                ingested |-> FALSE]
    /\ mixLog = <<>>

\* main.cpp:111-129.
EligibilityLoop ==
    /\ pc = "gate"
    /\ agents' = [i \in 1..Len(agents) |-> EligibilityOf(agents[i])]
    /\ mixLog' = [i \in 1..Len(agents) |->
                    LET outcome == GateOutcome(agents[i], agents'[i])
                    IN  [mixLog[i] EXCEPT
                            !.mixed = FALSE,
                            !.everStarted = @ \/ outcome = "eligible",
                            !.starved = IF outcome = "starved" THEN TRUE
                                        ELSE IF outcome = "eligible" THEN FALSE ELSE @,
                            !.restarted = @ \/ (mixLog[i].starved /\ outcome = "eligible")]]
    /\ frame' = [frame EXCEPT !.listener = 1, !.emittedTo = 0]
    /\ pc' = "mix"
    /\ UNCHANGED <<shiftVars, geoVars, clockVars, satVars, ringVars, gapVars>>

\* main.cpp:135-260, one turn of the outer loop: an avatar's frame is mixed
\* and sent.
MixListener ==
    /\ pc = "mix"
    /\ frame.listener <= Len(agents)
    /\ getsFrame(agents[frame.listener])
    /\ LET listener == frame.listener
           mixedHere == {j \in 1..Len(agents) : mixesAgent(agents, listener, j)}
       IN  \E garbage \in UninitValues :
           \E params \in [mixedHere \ {listener} -> SpatialParams] :
               /\ frame' = [frame EXCEPT
                               !.clientSamples =
                                   mixForListener(@, agents, listener, params, garbage),
                               !.emittedTo = listener,
                               !.listener = @ + 1]
               /\ mixLog' = [j \in 1..Len(agents) |->
                               [mixLog[j] EXCEPT
                                   !.mixed = @ \/ j \in mixedHere,
                                   !.frames = IF j = listener THEN @ + 1 ELSE @]]
    /\ UNCHANGED <<agents, pc>>
    /\ UNCHANGED <<shiftVars, geoVars, clockVars, satVars, ringVars, gapVars>>

\* main.cpp:136: an agent that is no avatar gets no frame.
MixSkipsInjector ==
    /\ pc = "mix"
    /\ frame.listener <= Len(agents)
    /\ ~getsFrame(agents[frame.listener])
    /\ frame' = [frame EXCEPT !.listener = @ + 1, !.emittedTo = 0]
    /\ UNCHANGED <<agents, pc, mixLog>>
    /\ UNCHANGED <<shiftVars, geoVars, clockVars, satVars, ringVars, gapVars>>

\* main.cpp:262-274, entered when the listeners' loop has ended.
AdvanceLoop ==
    /\ pc = "mix"
    /\ frame.listener > Len(agents)
    /\ agents' = [i \in 1..Len(agents) |-> advanceNextOutput(agents[i])]
    /\ mixLog' = [i \in 1..Len(agents) |->
                    IF agents[i].shouldBeAddedToMix /\ mixLog[i].firstWindow = <<>>
                    THEN [mixLog[i] EXCEPT !.frames = 0,
                             !.firstWindow =
                                 memcpyFrom(agents[i].rb.buffer, agents[i].rb.nextOutput,
                                            BUFFER_LENGTH_SAMPLES_PER_CHANNEL)]
                    ELSE [mixLog[i] EXCEPT !.frames = 0]]
    /\ frame' = [frame EXCEPT !.drained = FALSE, !.emittedTo = 0, !.ingested = FALSE]
    /\ pc' = "ingest"
    /\ UNCHANGED <<shiftVars, geoVars, clockVars, satVars, ringVars, gapVars>>

\* main.cpp:278-288: a microphone packet of an avatar.  Addresses are taken
\* in the order in which their avatars first send.
IngestMicrophone ==
    /\ pc = "ingest"
    /\ frame.packets < MaxPackets
    /\ \E address \in Avatars, n \in PacketSamples, loopback \in BOOLEAN :
           LET found == FindAgent(agents, "avatar", address, 0)
               at == IF found = 0 THEN Len(agents) + 1 ELSE found
               list == IF found = 0
                       THEN Append(agents, NewAgent("avatar", address, 0, loopback))
                       ELSE agents
               logs == IF found = 0 THEN Append(mixLog, NoMixLog) ELSE mixLog
           IN  /\ found # 0 => loopback = agents[found].loopback
               /\ found = 0 => \A other \in Avatars :
                                   other < address =>
                                       FindAgent(agents, "avatar", other, 0) # 0
               /\ agents' = [list EXCEPT ![at] =
                                updateAgentWithData(@, PacketPayload(address, logs[at].sent, n),
                                                    2 * n)]
               /\ mixLog' = [logs EXCEPT ![at].sent = @ + n]
    /\ frame' = [frame EXCEPT !.packets = @ + 1, !.drained = TRUE]
    /\ UNCHANGED pc
    /\ UNCHANGED <<shiftVars, geoVars, clockVars, satVars, ringVars, gapVars>>

\* main.cpp:289-317: a packet of an injected stream.
IngestInjected ==
    /\ pc = "ingest"
    /\ frame.packets < MaxPackets
    /\ \E streamId \in Streams, n \in PacketSamples :
           LET found == FindAgent(agents, "injector", 0, streamId)
               at == IF found = 0 THEN Len(agents) + 1 ELSE found
               list == IF found = 0
                       THEN Append(agents, NewAgent("injector", 0, streamId, FALSE))
                       ELSE agents
               logs == IF found = 0 THEN Append(mixLog, NoMixLog) ELSE mixLog
           IN  /\ agents' = [list EXCEPT ![at] =
                                updateAgentWithData(@, PacketPayload(streamId,
                                                                     logs[at].sent, n),
                                                    2 * n)]
               /\ mixLog' = [logs EXCEPT ![at].sent = @ + n]
    /\ frame' = [frame EXCEPT !.packets = @ + 1, !.drained = TRUE]
    /\ UNCHANGED pc
    /\ UNCHANGED <<shiftVars, geoVars, clockVars, satVars, ringVars, gapVars>>

\* main.cpp:277: receive() finds nothing more.
IngestDone ==
    /\ pc = "ingest"
    /\ pc' = "sleep"
    /\ frame' = [frame EXCEPT !.drained = FALSE, !.ingested = TRUE]
    /\ UNCHANGED <<agents, mixLog>>
    /\ UNCHANGED <<shiftVars, geoVars, clockVars, satVars, ringVars, gapVars>>

\* main.cpp:320-326: the loop waits for the next frame's time, or goes on
\* at once when that time has passed.
Cadence ==
    /\ pc = "sleep"
    /\ pc' = "gate"
    /\ UNCHANGED <<agents, frame, mixLog>>
    /\ UNCHANGED <<shiftVars, geoVars, clockVars, satVars, ringVars, gapVars>>

MixerNext ==
    \/ EligibilityLoop
    \/ MixListener
    \/ MixSkipsInjector
    \/ AdvanceLoop
    \/ IngestMicrophone
    \/ IngestInjected
    \/ IngestDone
    \/ Cadence

\* ------------------------------------------------- the geometry of the mix

Abs(v) == IF v < 0 THEN -v ELSE v

\* atan2f(|dz|, |dx|) * (180 / M_PI), for differences of 0 or 1.
triangleAngleOf(adz, adx) ==
    IF adz = 0 THEN 0
    ELSE IF adx = 0 THEN 90
    ELSE 45

\* The quadrant selection as it would be if equal coordinates counted as
\* greater.
absoluteAngleToSource_TiesGreater(agentPosition, otherAgentPosition) ==
    LET triangleAngle == triangleAngleOf(Abs(agentPosition.z - otherAgentPosition.z),
                                         Abs(agentPosition.x - otherAgentPosition.x))
    IN  IF otherAgentPosition.x >= agentPosition.x
        THEN (IF otherAgentPosition.z >= agentPosition.z
              THEN -90 + triangleAngle ELSE -90 - triangleAngle)
        ELSE (IF otherAgentPosition.z >= agentPosition.z
              THEN 90 - triangleAngle ELSE 90 + triangleAngle)

\* main.cpp:176-194.
absoluteAngleToSource(agentPosition, otherAgentPosition) ==
    LET triangleAngle == triangleAngleOf(Abs(agentPosition.z - otherAgentPosition.z),
                                         Abs(agentPosition.x - otherAgentPosition.x))
    IN  IF otherAgentPosition.x > agentPosition.x
        THEN (IF otherAgentPosition.z > agentPosition.z
              THEN -90 + triangleAngle ELSE -90 - triangleAngle)
        ELSE (IF otherAgentPosition.z > agentPosition.z
              THEN 90 - triangleAngle ELSE 90 + triangleAngle)

\* main.cpp:198-202 and 206-210.
wrapAngle(angle) ==
    IF angle > 180 THEN angle - 360
    ELSE IF angle < -180 THEN angle + 360
    ELSE angle

\* fabsf(sinf(angle * M_PI / 180)) for a multiple of 90 degrees (at 180
\* degrees sinf gives less than 1e-7, which the delay and the ratio round off).
sinRatioOf(angle) == IF angle % 180 = 0 THEN 0 ELSE 1

\* main.cpp:176-231 for a listener (agent) and another agent: the angles,
\* the off-axis coefficient in tenths, the delay, the weak channel's ratio in
\* halves, and the offsets of the two channels in clientSamples.
spatialGeometry(agentPosition, otherAgentPosition, agentBearing, otherBearing) ==
    LET absolute == absoluteAngleToSource(agentPosition, otherAgentPosition)
        bearingRelativeAngleToSource == wrapAngle(absolute - agentBearing)
        angleOfDelivery == wrapAngle(absolute - otherBearing)
        sinRatio == sinRatioOf(bearingRelativeAngleToSource)
    IN  [absoluteAngleToSource |-> absolute,
         bearingRelativeAngleToSource |-> bearingRelativeAngleToSource,
         angleOfDelivery |-> angleOfDelivery,
         offAxisTenths |-> 2 + (4 * Abs(angleOfDelivery)) \div 90,
         numSamplesDelay |-> PHASE_DELAY_AT_90 * sinRatio,
         weakHalves |-> 2 - sinRatio,
         goodChannel |-> IF bearingRelativeAngleToSource > 0
                         THEN BUFFER_LENGTH_SAMPLES_PER_CHANNEL ELSE 0,
         delayedChannel |-> IF bearingRelativeAngleToSource > 0
                            THEN 0 ELSE BUFFER_LENGTH_SAMPLES_PER_CHANNEL]

NoGeometry ==
    [absoluteAngleToSource |-> 0, bearingRelativeAngleToSource |-> 0,
     angleOfDelivery |-> 0, offAxisTenths |-> 0, numSamplesDelay |-> 0,
     weakHalves |-> 0, goodChannel |-> 0, delayedChannel |-> 0]

\* No pair of agents is looked at.
GeoIdle ==
    geo = [agentPosition |-> [x |-> 1, z |-> 1], otherAgentPosition |-> [x |-> 1, z |-> 1],
           agentBearing |-> 0, otherBearing |-> 0, applied |-> FALSE, result |-> NoGeometry]

\* The quarter turns a bearing is drawn from.
QuarterTurns == {-180, -90, 0, 90}

\* A listener, and another agent at the same place or one step away along
\* either axis or both; the listener's bearing is a quarter turn when the
\* other agent lies along an axis or at the same place, and a quarter turn
\* and a half when it lies on a diagonal, so that the relative angle is a
\* multiple of 90 degrees; the other agent's bearing is a multiple of 45.
GeoInit ==
    \E x, z \in 0..2, quarter, otherQuarter \in QuarterTurns, half \in {0, 45} :
        geo = [agentPosition |-> [x |-> 1, z |-> 1],
               otherAgentPosition |-> [x |-> x, z |-> z],
               agentBearing |-> quarter + (IF x # 1 /\ z # 1 THEN 45 ELSE 0),
               otherBearing |-> otherQuarter + half,
               applied |-> FALSE,
               result |-> NoGeometry]

\* main.cpp:153-231: the mix works out the geometry of the pair.
GeoApply ==
    /\ ~geo.applied
    /\ geo' = [geo EXCEPT
                  !.applied = TRUE,
                  !.result = spatialGeometry(geo.agentPosition, geo.otherAgentPosition,
                                             geo.agentBearing, geo.otherBearing)]
    /\ UNCHANGED <<shiftVars, clockVars, satVars, ringVars, gapVars, mixerVars>>

\* ------------------------------------------------------ the loop's cadence

\* BUFFER_SEND_INTERVAL_USECS, the time of one frame (11609.977 microseconds
\* in the source), in units of the model's clock.
BUFFER_SEND_INTERVAL_USECS == 2

\* The longest one pass of the loop takes before it reaches the cadence, and
\* the most passes of a run.
MaxPassTime == 5

MaxFrames == 6

\* main.cpp:99-107: nextFrame = 0 and the start time is taken.
ClockInit ==
    clock = [startTime |-> 1, now |-> 1, nextFrame |-> 0, phase |-> "pass",
             slept |-> 0, late |-> 0]

\* The cadence as it would be if the loop slept one frame time from now.
cadence_FromNow(c) ==
    [c EXCEPT !.nextFrame = @ + 1,
              !.now = @ + BUFFER_SEND_INTERVAL_USECS,
              !.slept = BUFFER_SEND_INTERVAL_USECS,
              !.phase = "pass"]

\* main.cpp:320-326: nextFrame is incremented and the loop sleeps until
\* startTime + nextFrame * BUFFER_SEND_INTERVAL_USECS when that is ahead.
cadence(c) ==
    LET nextFrame == c.nextFrame + 1
        usecToSleep == c.startTime + nextFrame * BUFFER_SEND_INTERVAL_USECS - c.now
    IN  IF usecToSleep > 0
        THEN [c EXCEPT !.nextFrame = nextFrame,
                       !.now = @ + usecToSleep,
                       !.slept = usecToSleep,
                       !.phase = "pass"]
        ELSE [c EXCEPT !.nextFrame = nextFrame,
                       !.slept = 0,
                       !.late = @ + 1,
                       !.phase = "pass"]

\* main.cpp:109-318: one pass through the gate, the mix, the advance and the
\* ingest takes some time.
LoopPass ==
    /\ clock.phase = "pass"
    /\ \E d \in 0..MaxPassTime :
           clock' = [clock EXCEPT !.now = @ + d, !.phase = "cadence"]
    /\ UNCHANGED <<shiftVars, geoVars, satVars, ringVars, gapVars, mixerVars>>

\* main.cpp:320-326.
CadenceSleep ==
    /\ clock.phase = "cadence"
    /\ clock.nextFrame < MaxFrames
    /\ clock' = cadence(clock)
    /\ UNCHANGED <<shiftVars, geoVars, satVars, ringVars, gapVars, mixerVars>>

CadenceNext ==
    \/ LoopPass
    \/ CadenceSleep

\* ---------------------------------------------------------- specifications

\* The parts of the state a specification leaves alone.
RingIdle ==
    /\ ring = AudioRingBuffer(RingFrameSamples, FALSE)
    /\ ringOut = NoRingOp
    /\ ringLog = [nextTag |-> 1, onlyWritesAndReads |-> TRUE, resets |-> FALSE,
                  sumWritten |-> 0, sumRead |-> 0, written |-> FALSE]

Init == MixerInit /\ SatInit /\ RingIdle /\ GapInit /\ ShiftIdle /\ ClockInit /\ GeoIdle

InitRing == RingInit /\ SatInit /\ GapInit /\ MixerInit /\ ShiftIdle /\ ClockInit /\ GeoIdle

InitShift == ShiftInit /\ MixerInit /\ SatInit /\ RingIdle /\ GapInit /\ ClockInit /\ GeoIdle

\* The mixer loop.
Spec == Init /\ [][MixerNext]_vars

\* The ring buffer under its own operations.
SpecRing == InitRing /\ [][RingNext]_vars

\* The gap history under frameReceived and getPastWindowMaxGap.
SpecGap == Init /\ [][GapNext]_vars

\* The gap history fed the gaps of the window scenario.
SpecGapScenario == Init /\ [][GapScenarioNext]_vars

\* Saturating additions into one sample of the scratch.
SpecSat == Init /\ [][SatAdd]_vars

InitGeo == GeoInit /\ MixerInit /\ SatInit /\ RingIdle /\ GapInit /\ ShiftIdle /\ ClockInit

\* The angles, the delay and the channels of one listener and one other agent.
SpecGeo == InitGeo /\ [][GeoApply]_vars

\* Shifts of a position, at once and in two steps.
SpecShift == InitShift /\ [][ShiftApply]_vars

\* The timing of the loop's passes.
SpecCadence == Init /\ [][CadenceNext]_vars

\* The agents the gate can meet: a buffer that was never written, or one with
\* its write cursor anywhere and its read cursor on a frame boundary.
GateBuffers ==
    {[AudioRingBuffer(BUFFER_LENGTH_SAMPLES_PER_CHANNEL, FALSE) EXCEPT
         !.endOfLastWrite = NULL]}
    \cup {[AudioRingBuffer(BUFFER_LENGTH_SAMPLES_PER_CHANNEL, FALSE) EXCEPT
               !.endOfLastWrite = w, !.nextOutput = r, !.hasStarted = started] :
             w \in 0..(RING_BUFFER_SAMPLES - 1),
             r \in {k * BUFFER_LENGTH_SAMPLES_PER_CHANNEL : k \in 0..(RING_BUFFER_FRAMES - 1)},
             started \in BOOLEAN}

GateAgents ==
    {[NewAgent("avatar", 1, 0, loopback) EXCEPT !.hasLinkedData = TRUE, !.rb = rb] :
         loopback \in BOOLEAN, rb \in GateBuffers}
    \cup {[NewAgent("injector", 0, 3, FALSE) EXCEPT !.hasLinkedData = TRUE, !.rb = rb] :
              rb \in GateBuffers}

\* The loop is about to run the gate over a list of one or two agents.
InitGate ==
    /\ SatInit /\ RingIdle /\ GapInit /\ ShiftIdle /\ ClockInit /\ GeoIdle
    /\ pc = "gate"
    /\ frame = [listener |-> 0,
                emittedTo |-> 0,
                clientSamples |-> [i \in 0..(2 * BUFFER_LENGTH_SAMPLES_PER_CHANNEL - 1) |-> 0],
                packets |-> 0,
                drained |-> FALSE,
                ingested |-> FALSE]
    /\ \E first \in GateAgents :
           \/ agents = <<first>> /\ mixLog = <<NoMixLog>>
           \/ \E second \in GateAgents :
                  /\ agents = <<first, second>>
                  /\ mixLog = <<NoMixLog, NoMixLog>>

\* The gate alone, from every state of the buffers.
SpecGate == InitGate /\ [][EligibilityLoop]_vars

\* ------------------------------------------------------------ the claims

Clamp16(v) == Max(MIN_SAMPLE_VALUE, Min(MAX_SAMPLE_VALUE, v))

\* C1: the sample stored by a saturating addition is the sum of the two
\* 16-bit operands clamped to [INT16_MIN, INT16_MAX]; a sum above INT16_MAX
\* gives INT16_MAX.
C1_StoredIsClampedSum ==
    sat.adds > 0 => sat.mixSample = Clamp16(sat.prevMix + sat.sampleToAdd)

\* C2: on a ring buffer that is not in random-access mode and started empty,
\* while only writes and reads were made, no write found an overflow and the
\* samples written do not exceed the capacity, the samples read never exceed
\* the samples written and samplesAvailable() is their difference.
C2_AvailableIsWrittenMinusRead ==
    (/\ ~ring.randomAccessMode
     /\ ringLog.onlyWritesAndReads
     /\ ~ringLog.resets
     /\ ringLog.sumWritten <= RingCapacity)
        => /\ ringLog.sumRead <= ringLog.sumWritten
           /\ samplesAvailable(ring) = ringLog.sumWritten - ringLog.sumRead

\* C3: a write on a started buffer whose clamped sample count exceeds the
\* free space, capacity - available, finds the overflow and resets.
C3_CrossingWriteResets ==
    [][(/\ ringOut'.op = "write"
        /\ ring.hasStarted
        /\ ringOut'.ret \div 2 > ring.sampleCapacity - samplesAvailable(ring))
           => ringOut'.overflow]_vars

GateRow(agent) ==
    LET avail == samplesAvailable(agent.rb)
    IN  IF agent.rb.endOfLastWrite = NULL THEN "skip"
        ELSE IF ~agent.rb.hasStarted
                /\ avail <= BUFFER_LENGTH_SAMPLES_PER_CHANNEL + JITTER_BUFFER_SAMPLES
             THEN "hold back"
             ELSE IF avail < BUFFER_LENGTH_SAMPLES_PER_CHANNEL THEN "starved"
                  ELSE "eligible"

\* C5: the gate leaves every agent as the first row of the table that
\* applies says: never written, should_mix false and nothing changed; not
\* started and avail <= F + J, should_mix false and started still false;
\* avail < F, started and should_mix false; otherwise started and should_mix
\* true.  No other field of the agent or of its buffer changes.
C5_GateFollowsTable ==
    [][pc = "gate" =>
          /\ Len(agents') = Len(agents)
          /\ \A i \in 1..Len(agents) :
                 LET before == agents[i]
                     after == agents'[i]
                     row == GateRow(before)
                 IN  /\ row = "skip" =>
                            after = before /\ ~after.shouldBeAddedToMix
                     /\ row = "hold back" =>
                            /\ after = [before EXCEPT !.shouldBeAddedToMix = FALSE]
                            /\ ~after.rb.hasStarted
                     /\ row = "starved" =>
                            after = [before EXCEPT !.shouldBeAddedToMix = FALSE,
                                                   !.rb.hasStarted = FALSE]
                     /\ row = "eligible" =>
                            after = [before EXCEPT !.shouldBeAddedToMix = TRUE,
                                                   !.rb.hasStarted = TRUE]]_vars

\* C5: the gate has run over a started agent it found starved and an agent
\* it held back with exactly F + J samples.
C5_Witness ==
    /\ pc = "mix"
    /\ Len(agents) = 2
    /\ mixLog[1].starved
    /\ ~agents[1].rb.hasStarted
    /\ agents[2].rb.endOfLastWrite # NULL
    /\ ~agents[2].rb.hasStarted
    /\ samplesAvailable(agents[2].rb) =
           BUFFER_LENGTH_SAMPLES_PER_CHANNEL + JITTER_BUFFER_SAMPLES

IdentityOf(agent) == IF agent.type = "avatar" THEN agent.address ELSE agent.streamId

FirstSamplesOf(agent) ==
    [k \in 1..BUFFER_LENGTH_SAMPLES_PER_CHANNEL |-> TagOf(IdentityOf(agent), k)]

\* The startup part of C6 that holds whatever was written: an agent that was
\* never started is in no mix and not started; the gate holds it back while
\* avail <= F + J and makes it eligible at the first gate with avail > F + J.
StartupHoldBack ==
    /\ [](\A i \in 1..Len(agents) :
              ~mixLog[i].everStarted =>
                  /\ ~agents[i].rb.hasStarted
                  /\ ~agents[i].shouldBeAddedToMix
                  /\ ~mixLog[i].mixed
                  /\ mixLog[i].firstWindow = <<>>)
    /\ [][pc = "gate" =>
              \A i \in 1..Len(agents) :
                  ~mixLog[i].everStarted =>
                      LET avail == samplesAvailable(agents[i].rb)
                      IN  IF avail <= BUFFER_LENGTH_SAMPLES_PER_CHANNEL
                                          + JITTER_BUFFER_SAMPLES
                          THEN /\ ~agents'[i].shouldBeAddedToMix
                               /\ ~agents'[i].rb.hasStarted
                          ELSE /\ agents'[i].shouldBeAddedToMix
                               /\ agents'[i].rb.hasStarted]_vars

C7_RestartNeedsCushion ==
    /\ [](\A i \in 1..Len(agents) :
              mixLog[i].starved =>
                  /\ ~agents[i].rb.hasStarted
                  /\ ~agents[i].shouldBeAddedToMix
                  /\ ~mixLog[i].mixed)
    /\ [][pc = "gate" =>
              \A i \in 1..Len(agents) :
                  LET avail == samplesAvailable(agents[i].rb)
                  IN  /\ mixLog[i].starved =>
                             (agents'[i].shouldBeAddedToMix
                                  <=> avail > BUFFER_LENGTH_SAMPLES_PER_CHANNEL
                                                  + JITTER_BUFFER_SAMPLES)
                      /\ agents[i].rb.hasStarted =>
                             (agents'[i].shouldBeAddedToMix
                                  <=> avail >= BUFFER_LENGTH_SAMPLES_PER_CHANNEL)]_vars

\* C7: an agent that starved is held back by a gate that finds F + J samples.
C7_Witness ==
    /\ pc = "mix"
    /\ \E i \in 1..Len(agents) :
           /\ mixLog[i].starved
           /\ samplesAvailable(agents[i].rb) =
                  BUFFER_LENGTH_SAMPLES_PER_CHANNEL + JITTER_BUFFER_SAMPLES
           /\ ~agents[i].shouldBeAddedToMix

\* C7: an agent that starved has been made eligible again.
C7_WitnessRestarted ==
    \E i \in 1..Len(agents) : mixLog[i].restarted /\ agents[i].shouldBeAddedToMix

\* C8: the frame sent to an avatar without loopback, when no other agent is
\* marked for the mix, is 2F zero samples.
C8_SilentFrame ==
    \A i \in 1..Len(agents) :
        (/\ frame.emittedTo = i
         /\ ~agents[i].loopback
         /\ \A j \in 1..Len(agents) : j # i => ~agents[j].shouldBeAddedToMix)
            => /\ DOMAIN frame.clientSamples =
                      0..(2 * BUFFER_LENGTH_SAMPLES_PER_CHANNEL - 1)
               /\ \A k \in DOMAIN frame.clientSamples : frame.clientSamples[k] = 0

\* C8: the second avatar, itself marked for the mix and without loopback,
\* gets its frame after the first avatar got a frame that mixed it.
C8_Witness ==
    /\ pc = "mix"
    /\ Len(agents) = 2
    /\ frame.emittedTo = 2
    /\ agents[1].type = "avatar"
    /\ ~agents[1].shouldBeAddedToMix
    /\ agents[2].shouldBeAddedToMix
    /\ ~agents[2].loopback
    /\ mixLog[2].mixed

\* C9: while the listeners are mixed no read cursor moves; the advance that
\* follows moves the read cursor of exactly the agents marked for the mix,
\* by F modulo the capacity, and leaves every agent unmarked.
C9_AdvanceAfterAllListeners ==
    [][/\ (pc = "mix" /\ pc' = "mix") =>
              /\ Len(agents') = Len(agents)
              /\ \A i \in 1..Len(agents) :
                     /\ agents'[i].rb.nextOutput = agents[i].rb.nextOutput
                     /\ agents'[i].rb.buffer = agents[i].rb.buffer
                     /\ agents'[i].shouldBeAddedToMix = agents[i].shouldBeAddedToMix
       /\ (pc = "mix" /\ pc' = "ingest") =>
              /\ Len(agents') = Len(agents)
              /\ \A i \in 1..Len(agents) :
                     /\ ~agents'[i].shouldBeAddedToMix
                     /\ agents'[i].rb.nextOutput =
                            IF agents[i].shouldBeAddedToMix
                            THEN (agents[i].rb.nextOutput
                                      + BUFFER_LENGTH_SAMPLES_PER_CHANNEL)
                                     % agents[i].rb.sampleCapacity
                            ELSE agents[i].rb.nextOutput]_vars

\* C9: two avatars were sent frames that mixed an agent whose read cursor the
\* advance then wrapped to the origin, while another agent was not marked.
C9_Witness ==
    /\ pc = "ingest"
    /\ ~frame.drained
    /\ Len(agents) = 2
    /\ mixLog[1].mixed
    /\ mixLog[1].sent = RING_BUFFER_SAMPLES
    /\ agents[1].rb.nextOutput = 0
    /\ agents[1].rb.endOfLastWrite = 0
    /\ ~mixLog[2].mixed

\* The largest of the gaps numbered from..to, zero when there is none.
MaxOfGaps(gaps, from, to) ==
    LET among == {gaps[k] : k \in from..to}
    IN  IF among = {} THEN 0 ELSE CHOOSE g \in among : \A other \in among : other <= g

\* C10: after any calls of frameReceived the window max is the largest of
\* the gaps of the last W completed intervals of S gaps each; the first call
\* records the time and no gap, and the gaps of the interval that is not
\* complete are not counted.
C10_WindowMaxOverLastIntervals ==
    LET S == TIME_GAP_NUM_SAMPLES_IN_INTERVAL
        W == TIME_GAP_NUM_INTERVALS_IN_WINDOW
        gaps == gapHist.gaps
        completed == Len(gaps) \div S
        oldest == Max(0, completed - W)
    IN  /\ Len(gaps) = Max(0, gapHist.calls - 1)
        /\ gapHist.calls = 1 =>
               /\ gapHist.h.lastFrameReceivedTime = gapHist.now
               /\ gapHist.h.numSamplesInCurrentInterval = 0
               /\ gapHist.h.currentIntervalMaxGap = 0
        /\ gapHist.h.numSamplesInCurrentInterval = Len(gaps) % S
        /\ gapHist.h.windowMaxGap = MaxOfGaps(gaps, oldest * S + 1, completed * S)

\* C10: more than W intervals are complete, the largest gap was in the
\* oldest interval, which left the window, and a gap of the interval that
\* is not complete is larger than the window max.
C10_Witness ==
    /\ Len(gapHist.gaps) =
           (TIME_GAP_NUM_INTERVALS_IN_WINDOW + 1) * TIME_GAP_NUM_SAMPLES_IN_INTERVAL + 1
    /\ gapHist.gaps[1] = MaxGap
    /\ gapHist.gaps[Len(gapHist.gaps)] = MaxGap
    /\ gapHist.h.windowMaxGap = 0

\* The stored interval maxima, the oldest first.
IntervalMaxesOldestFirst(h) ==
    [j \in 1..TIME_GAP_NUM_INTERVALS_IN_WINDOW |->
        h.intervalMaxGaps[(h.newestIntervalMaxGapAt + j) % TIME_GAP_NUM_INTERVALS_IN_WINDOW]]

\* C11: with S gaps per interval and W intervals per window (2 and 3), once
\* the calls have fed the gaps 100, 200, ..., 100 * S * W (600), one a call,
\* the stored interval maxima are 100 * S, 2 * 100 * S, ... (200, 400, 600)
\* and the window max is 100 * S * W (600).
C11_GapWindowScenario ==
    LET S == TIME_GAP_NUM_SAMPLES_IN_INTERVAL
        W == TIME_GAP_NUM_INTERVALS_IN_WINDOW
    IN  gapHist.gaps = [k \in 1..(S * W) |-> 100 * k]
            => /\ IntervalMaxesOldestFirst(gapHist.h) = [j \in 1..W |-> 100 * S * j]
               /\ gapHist.h.windowMaxGap = 100 * S * W
               /\ gapHist.h.numSamplesInCurrentInterval = 0
               /\ gapHist.h.currentIntervalMaxGap = 0

\* C11: the six gaps 100, ..., 600 have been fed and the window max is 600.
C11_Witness ==
    /\ TIME_GAP_NUM_SAMPLES_IN_INTERVAL = 2
    /\ TIME_GAP_NUM_INTERVALS_IN_WINDOW = 3
    /\ gapHist.gaps = <<100, 200, 300, 400, 500, 600>>
    /\ gapHist.h.intervalMaxGaps = (0 :> 600 @@ 1 :> 200 @@ 2 :> 400)
    /\ gapHist.h.newWindowMaxGapAvailable
    /\ gapHist.h.windowMaxGap = 600

\* A read follows a write of k samples at once and asks for k samples, on a
\* buffer in random-access mode.
ReadBackAfterWrite ==
    /\ ringOut.op = "write"
    /\ ring.randomAccessMode
    /\ ringOut'.op = "read"
    /\ ringOut'.arg = ringOut.ret

\* The read of such a step returns the samples the write copied, in order,
\* and leaves zero at every position it visited.
ReadBackReturnsWritten ==
    LET k == ringOut.ret \div 2
        first == ringLog.nextTag - ringOut.arg \div 2
    IN  /\ ringOut'.ret = 2 * k
        /\ ringOut'.data = Payload(first, k)
        /\ \A i \in 0..(k - 1) :
               ring'.buffer[(ring.nextOutput + i) % ring.sampleCapacity] = 0

\* C12, as stated: in random-access mode, in any state, a write of k samples
\* followed at once by a read of k samples returns the k samples written,
\* in order, and the positions the read visited hold zero.
C12_RoundTripAnywhere ==
    [][ReadBackAfterWrite => ReadBackReturnsWritten]_vars

\* C12, amended: the same, provided the write began at the read cursor (the
\* cursors were equal before the write, or the write reset them).
C12_RoundTripFromReadCursor ==
    [][(/\ ReadBackAfterWrite
        /\ (ring.endOfLastWrite - ring.nextOutput - ringOut.ret \div 2
                + 2 * ring.sampleCapacity) % ring.sampleCapacity = 0)
           => ReadBackReturnsWritten]_vars

\* C12: a write of the whole capacity that began at a read cursor off the
\* origin has been read back, the read wrapping at the end.
C12_Witness ==
    /\ ring.randomAccessMode
    /\ ringOut.op = "read"
    /\ ringOut.ret = 2 * RingCapacity
    /\ ringOut.data = Payload(ringLog.nextTag - RingCapacity, RingCapacity)
    /\ ring.nextOutput = 1
    /\ ring.endOfLastWrite = 1

\* The position p shifted by n, as the claim gives it: (p + n) mod capacity,
\* with the mathematical modulus.
ShiftModulo(p, n) == (p + n + 3 * RingCapacity) % RingCapacity

\* C13, as stated: for a position in [0, capacity) and shifts n1, n2 with
\* |n1|, |n2| <= capacity, shifting by n1 + n2 gives the position that shifting
\* by n1 and then by n2 gives, and it is (position + n1 + n2) mod capacity.
C13_ShiftComposes ==
    shift.applied =>
        /\ shift.composed = shift.stepwise
        /\ shift.composed = ShiftModulo(shift.position, shift.n1 + shift.n2)

\* C13, amended: shifting by n1 and then by n2 always gives
\* (position + n1 + n2) mod capacity, a position in [0, capacity); shifting by
\* n1 + n2 at once gives the same when |n1 + n2| <= capacity.
C13_ShiftComposesWithinOneWrap ==
    shift.applied =>
        /\ shift.stepwise = ShiftModulo(shift.position, shift.n1 + shift.n2)
        /\ shift.stepwise \in 0..(RingCapacity - 1)
        /\ shift.n1 + shift.n2 \in (-RingCapacity)..RingCapacity
               => shift.composed = shift.stepwise

\* C13: a shift forwards across the end and a shift backwards across the
\* origin have been applied, at once and in two steps.
C13_Witness ==
    /\ shift.applied
    /\ shift.position = RingCapacity - 1
    /\ shift.n1 = RingCapacity
    /\ shift.n2 = -RingCapacity
    /\ shift.composed = shift.stepwise
    /\ shift.stepwise = RingCapacity - 1

\* The loop's phases follow each other in the order gate, mix, advance,
\* ingest, cadence; the gate and the advance are one step each.
PhasesInOrder ==
    [][/\ pc = "gate" => pc' = "mix"
       /\ pc = "mix" => pc' \in {"mix", "ingest"}
       /\ pc = "ingest" => pc' \in {"ingest", "sleep"}
       /\ pc = "sleep" => pc' = "gate"]_vars

\* From the gate to the advance nothing is written to a ring buffer and no
\* agent is added: the samples and the write cursors stay as the gate saw them.
NoWriteFromGateToAdvance ==
    [][(pc = "gate" \/ pc = "mix") =>
           (/\ Len(agents') = Len(agents)
            /\ \A i \in 1..Len(agents) :
                   (/\ agents'[i].rb.buffer = agents[i].rb.buffer
                    /\ agents'[i].rb.endOfLastWrite = agents[i].rb.endOfLastWrite))]_vars

\* An agent is marked for the mix only from its gate to its advance, and
\* while it is marked its buffer holds the frame the gate found.
EligibilityHoldsWhileMixed ==
    \A i \in 1..Len(agents) :
        agents[i].shouldBeAddedToMix =>
            /\ pc = "mix"
            /\ samplesAvailable(agents[i].rb) >= BUFFER_LENGTH_SAMPLES_PER_CHANNEL

\* C14, as stated: in every frame, the first included, the ingest is drained
\* before the gate; the gate is evaluated once, then the listeners are
\* mixed, then the read cursors advance, and nothing is written to a ring
\* buffer between the gate and the advance.
C14_IngestFirstInEveryFrame ==
    /\ PhasesInOrder
    /\ NoWriteFromGateToAdvance
    /\ [](EligibilityHoldsWhileMixed)
    /\ [](pc \in {"gate", "mix"} => frame.ingested)

\* C14, amended: the same for every frame but the first pass of the loop,
\* which runs the gate, the mix and the advance over the empty registry
\* before anything was ingested.
C14_IngestFirstAfterFirstPass ==
    /\ PhasesInOrder
    /\ NoWriteFromGateToAdvance
    /\ [](EligibilityHoldsWhileMixed)
    /\ [](pc \in {"gate", "mix"} => (frame.ingested \/ agents = <<>>))

\* C14: after an ingest the gate marked an agent, and listeners are mixed.
C14_Witness ==
    /\ pc = "mix"
    /\ frame.ingested
    /\ frame.listener > 1
    /\ \E i \in 1..Len(agents) : agents[i].shouldBeAddedToMix

\* The time frame n is scheduled at: the start time and n frame times.
ScheduledTime(n) == clock.startTime + n * BUFFER_SEND_INTERVAL_USECS

\* C15: the cadence at the end of a pass counts one frame more; when the
\* time that frame is scheduled at lies ahead it sleeps exactly until then,
\* otherwise it goes on at once without sleeping; so every pass begins at
\* its frame's scheduled time or later, and at that time exactly when the
\* loop slept, however late earlier passes were.
C15_CadenceFollowsSchedule ==
    /\ [][clock.phase = "cadence" =>
              LET due == ScheduledTime(clock.nextFrame + 1)
              IN  /\ clock'.nextFrame = clock.nextFrame + 1
                  /\ clock'.startTime = clock.startTime
                  /\ IF due > clock.now
                     THEN clock'.now = due /\ clock'.slept = due - clock.now
                     ELSE clock'.now = clock.now /\ clock'.slept = 0]_vars
    /\ [](clock.phase = "pass" =>
              /\ clock.now >= ScheduledTime(clock.nextFrame)
              /\ clock.slept > 0 => clock.now = ScheduledTime(clock.nextFrame))

\* C15: passes ran late and the loop went on without sleeping, and a later
\* pass begins at its scheduled time again.
C15_Witness ==
    /\ clock.phase = "pass"
    /\ clock.late >= 2
    /\ clock.slept > 0
    /\ clock.nextFrame = MaxFrames
    /\ clock.now = ScheduledTime(MaxFrames)

\* C16: when the listeners' loop of a frame has ended, every avatar in the
\* registry was sent exactly one frame and no injector was sent any, whatever
\* the gate found of the avatar's own buffer; each frame sent goes to an
\* avatar and is 2F samples long.
C16_OneFramePerAvatar ==
    /\ [][(pc = "mix" /\ pc' = "ingest") =>
              \A i \in 1..Len(agents) :
                  mixLog[i].frames = IF agents[i].type = "avatar" THEN 1 ELSE 0]_vars
    /\ [](frame.emittedTo # 0 =>
              /\ agents[frame.emittedTo].type = "avatar"
              /\ DOMAIN frame.clientSamples =
                     0..(2 * BUFFER_LENGTH_SAMPLES_PER_CHANNEL - 1))

\* C16: the listeners' loop has ended over an avatar marked for the mix, an
\* avatar that is not, and an injector.
C16_Witness ==
    /\ pc = "mix"
    /\ frame.listener > Len(agents)
    /\ \E i, j, k \in 1..Len(agents) :
           /\ agents[i].type = "avatar" /\ agents[i].shouldBeAddedToMix
           /\ mixLog[i].frames = 1
           /\ agents[j].type = "avatar" /\ ~agents[j].shouldBeAddedToMix
           /\ mixLog[j].frames = 1
           /\ agents[k].type = "injector" /\ mixLog[k].frames = 0

\* C17: in random-access mode a read before any write returns nothing and
\* leaves the read cursor where it is; after a write every read returns as
\* many samples as were asked for and moves the read cursor by that many,
\* modulo the capacity.
C17_NothingToReadBeforeFirstWrite ==
    [][(ring.randomAccessMode /\ ringOut'.op = "read") =>
           LET maxSamples == ringOut'.arg \div 2
           IN  IF ~ringLog.written
               THEN /\ ringOut'.ret = 0
                    /\ ringOut'.data = <<>>
                    /\ ring'.nextOutput = ring.nextOutput
               ELSE /\ ringOut'.ret = 2 * maxSamples
                    /\ Len(ringOut'.data) = maxSamples
                    /\ ring'.nextOutput =
                           (ring.nextOutput + maxSamples) % ring.sampleCapacity]_vars

\* The n samples that lie from position r on, wrapping at the end.
SamplesFrom(rb, r, n) == [k \in 1..n |-> rb.buffer[(r + k - 1) % rb.sampleCapacity]]

\* C18: a read in normal mode copies min(max_samples, available) samples from
\* the read cursor on, wrapping, and returns twice that count; the read
\* cursor moves by that count modulo the capacity, which is no more than was
\* available, so not past the write cursor; with nothing available it
\* returns 0 and changes nothing; the samples, the write cursor and the
\* flags are as before.
C18_NormalReadTakesWhatIsAvailable ==
    [][(~ring.randomAccessMode /\ ringOut'.op = "read") =>
           LET available == samplesAvailable(ring)
               count == Min(ringOut'.arg \div 2, available)
           IN  /\ ringOut'.ret = 2 * count
               /\ ringOut'.data = SamplesFrom(ring, ring.nextOutput, count)
               /\ ring'.nextOutput = (ring.nextOutput + count) % ring.sampleCapacity
               /\ count <= available
               /\ available = 0 => (ringOut'.ret = 0 /\ ring' = ring)
               /\ ring' = [ring EXCEPT !.nextOutput = ring'.nextOutput]]_vars

\* C18: a read in normal mode asked for more than was available and took
\* what there was, across the end of the buffer.
C18_Witness ==
    /\ ~ring.randomAccessMode
    /\ ringOut.op = "read"
    /\ ringOut.arg = 2 * RingCapacity
    /\ ringOut.ret = 4
    /\ ring.nextOutput = 1
    /\ ring.endOfLastWrite = 1
    /\ ringLog.onlyWritesAndReads

\* C20: addSilentFrame(n), 0 <= n <= capacity, stores zero in the n positions
\* from the write cursor on, wrapping at the end, leaves the write cursor at
\* (old write cursor + n) mod capacity, and changes neither the read cursor
\* nor the flags, wherever the cursors were.
C20_SilentFrameAdvancesWriteCursor ==
    [][ringOut'.op = "addSilent" =>
           LET n == ringOut'.arg
               w == ring.endOfLastWrite
               cap == ring.sampleCapacity
           IN  /\ \A k \in 0..(n - 1) : ring'.buffer[(w + k) % cap] = 0
               /\ ring'.endOfLastWrite = (w + n) % cap
               /\ ring'.nextOutput = ring.nextOutput
               /\ ring'.isStarved = ring.isStarved
               /\ ring'.hasStarted = ring.hasStarted]_vars

\* What the claim says of a write of B bytes at write cursor w.
WriteCopiesAndAdvances ==
    LET B == ringOut'.arg
        cap == ring.sampleCapacity
        n == Min(B \div 2, cap)
        w == IF ringOut'.overflow THEN 0 ELSE ring.endOfLastWrite
        offered == Payload(ringLog.nextTag, B \div 2)
    IN  /\ ringOut'.ret = 2 * n
        /\ \A k \in 0..(n - 1) : ring'.buffer[(w + k) % cap] = offered[k + 1]
        /\ \A i \in 0..(cap - 1) :
               (\A k \in 0..(n - 1) : i # (w + k) % cap) => ring'.buffer[i] = ring.buffer[i]
        /\ ~ringOut'.overflow =>
               /\ ring'.endOfLastWrite = (ring.endOfLastWrite + n) % cap
               /\ ring'.nextOutput = ring.nextOutput

\* C19: a write of B bytes copies the first min(floor(B / 2), capacity)
\* samples of the payload and returns twice that count; when it does not
\* reset the buffer the write cursor ends at (old write cursor + count) mod
\* capacity and the read cursor is unchanged.
C19_WriteCopiesAndAdvances ==
    [][ringOut'.op = "write" => WriteCopiesAndAdvances]_vars

\* C21: getPastWindowMaxGap returns the window max of the most recent
\* completed interval and changes nothing but the flag, which it clears; the
\* flag is set exactly when an interval of S gaps was completed since the
\* last call of getPastWindowMaxGap, and it is not set at first.
C21_DrainReturnsWindowMaxAndClearsFlag ==
    /\ [](gapHist.h.newWindowMaxGapAvailable = gapHist.completedSinceDrain)
    /\ [](Len(gapHist.gaps) < TIME_GAP_NUM_SAMPLES_IN_INTERVAL
              => ~gapHist.h.newWindowMaxGapAvailable)
    /\ [][gapHist'.calls = gapHist.calls =>
              LET S == TIME_GAP_NUM_SAMPLES_IN_INTERVAL
                  W == TIME_GAP_NUM_INTERVALS_IN_WINDOW
                  completed == Len(gapHist.gaps) \div S
              IN  /\ gapHist'.drained = gapHist.h.windowMaxGap
                  /\ gapHist'.drained =
                         MaxOfGaps(gapHist.gaps, Max(0, completed - W) * S + 1,
                                   completed * S)
                  /\ gapHist'.h =
                         [gapHist.h EXCEPT !.newWindowMaxGapAvailable = FALSE]]_vars

\* C21: an interval was completed, the window max was fetched, and gaps of
\* the next interval, which is not complete, have come since.
C21_Witness ==
    /\ Len(gapHist.gaps) = TIME_GAP_NUM_SAMPLES_IN_INTERVAL + 1
    /\ gapHist.gaps[1] = MaxGap
    /\ gapHist.drained = MaxGap
    /\ ~gapHist.h.newWindowMaxGapAvailable
    /\ gapHist.h.windowMaxGap = MaxGap

CoLocatedFacingZero ==
    /\ geo.applied
    /\ geo.otherAgentPosition = geo.agentPosition
    /\ geo.agentBearing = 0
    /\ geo.otherBearing = 0

\* C23, as stated: for a listener and a source at the same position, both
\* with bearing 0, the relative angle is -90 degrees, the left channel (the
\* first F samples of the frame) is the good channel, and the right channel
\* is the delayed one, PHASE_DELAY_AT_90 samples later at ratio 0.5.
C23_CoLocatedSourceIsLeft ==
    CoLocatedFacingZero =>
        /\ geo.result.bearingRelativeAngleToSource = -90
        /\ geo.result.goodChannel = 0
        /\ geo.result.delayedChannel = BUFFER_LENGTH_SAMPLES_PER_CHANNEL
        /\ geo.result.numSamplesDelay = PHASE_DELAY_AT_90
        /\ geo.result.weakHalves = 1

\* C23, amended: the relative angle is +90 degrees, the right channel (the
\* second F samples of the frame) is the good channel, and the left channel
\* is the delayed one, PHASE_DELAY_AT_90 samples later at ratio 0.5.
C23_CoLocatedSourceIsRight ==
    CoLocatedFacingZero =>
        /\ geo.result.absoluteAngleToSource = 90
        /\ geo.result.bearingRelativeAngleToSource = 90
        /\ geo.result.goodChannel = BUFFER_LENGTH_SAMPLES_PER_CHANNEL
        /\ geo.result.delayedChannel = 0
        /\ geo.result.numSamplesDelay = PHASE_DELAY_AT_90
        /\ geo.result.weakHalves = 1

\* C23: the geometry of two agents at the same position, both with bearing
\* 0, has been worked out, with the full delay.
C23_Witness ==
    /\ CoLocatedFacingZero
    /\ geo.result.numSamplesDelay = PHASE_DELAY_AT_90
    /\ geo.result.offAxisTenths = 6

\* C24: after any writes, reads, silent frames, shifts of the read position
\* and resets of between 0 and capacity samples each, the read cursor and
\* the write cursor are offsets in [0, capacity), and samplesAvailable() is
\* in [0, capacity).
C24_CursorsStayInRange ==
    /\ ring.nextOutput \in 0..(ring.sampleCapacity - 1)
    /\ ring.endOfLastWrite \in 0..(ring.sampleCapacity - 1)
    /\ samplesAvailable(ring) \in 0..(ring.sampleCapacity - 1)

\* C25: on a buffer that is not in random-access mode, after writes and
\* reads in any order none of which reset the buffer, the samples the reads
\* returned, one read after the other, are the first of the samples the
\* writes accepted, in the order written.  The samples written are numbered
\* 1, 2, ...; where every write was accepted whole, the read that brings the
\* samples read to sumRead returned the samples numbered up to sumRead.
C25_ReadsArePrefixOfWrites ==
    (/\ ~ring.randomAccessMode
     /\ ringLog.onlyWritesAndReads
     /\ ~ringLog.resets
     /\ ringLog.nextTag - 1 = ringLog.sumWritten
     /\ ringOut.op = "read")
        => /\ ringLog.sumRead <= ringLog.sumWritten
           /\ ringOut.data =
                  Payload(ringLog.sumRead - Len(ringOut.data) + 1, Len(ringOut.data))

\* The look-back window of an agent's buffer for a delay: where it starts
\* (main.cpp:233-235).
LookBackStart(rb, delay) ==
    IF rb.nextOutput = 0 THEN RING_BUFFER_SAMPLES - delay ELSE rb.nextOutput - delay

\* C26: in every state of the mixer loop the read cursor of every agent's
\* buffer is a multiple of F in [0, capacity), so the F samples from it on end
\* at the end of the buffer or before; and the look-back window of a delay of
\* up to PHASE_DELAY_AT_90 samples, which starts delay samples before the read
\* cursor, or delay samples before the end when the read cursor is at the
\* origin, lies within [0, capacity).
C26_ReadWindowsInsideRing ==
    \A i \in 1..Len(agents) :
        LET rb == agents[i].rb
        IN  /\ rb.sampleCapacity = RING_BUFFER_SAMPLES
            /\ rb.nextOutput % BUFFER_LENGTH_SAMPLES_PER_CHANNEL = 0
            /\ rb.nextOutput \in 0..(rb.sampleCapacity - 1)
            /\ rb.nextOutput + BUFFER_LENGTH_SAMPLES_PER_CHANNEL <= rb.sampleCapacity
            /\ \A delay \in 0..PHASE_DELAY_AT_90 :
                   /\ LookBackStart(rb, delay) >= 0
                   /\ LookBackStart(rb, delay) + delay <= rb.sampleCapacity

\* C26: an agent whose read cursor is at the last frame of its buffer is
\* marked for the mix and the listeners are being mixed.
C26_Witness ==
    /\ pc = "mix"
    /\ \E i \in 1..Len(agents) :
           /\ agents[i].shouldBeAddedToMix
           /\ agents[i].rb.nextOutput =
                  RING_BUFFER_SAMPLES - BUFFER_LENGTH_SAMPLES_PER_CHANNEL

====
